---- MODULE Spec2Model ----
(***************************************************************************)
(* Model of the baidu backend's chunked upload (Object.Update, latest      *)
(* revision), the process-wide buffer pool (uploadBufBytesSlice, BufBytes) *)
(* and the goroutines Update starts: the context watcher, the placeholder  *)
(* (empty file) creator and one uploader per chunk.                        *)
(***************************************************************************)
EXTENDS Integers, Sequences, FiniteSets, TLC

\* ---------------------------------------------------------------- bounds
\* Update calls made on the one pool
NumJobs == 3
\* opt.UploadChunkSize, in bytes
ChunkSize == 2
\* opt.MaxUploadThreadCount of the Fs that created the pool
ThreadCount == 2
\* largest src.Size() tried, and how many remote calls and stream reads may
\* fail, for one upload running alone
MaxSize == 5
MaxFaults == 2
\* the same for one upload running alone whose retry loops are run dry
RetryMaxSize == 3
RetryFaults == 5
\* the same for SharedJobs uploads running concurrently
SharedJobs == 2
SharedMaxSize == 3
SharedFaults == 1
\* the same for NumJobs uploads of at most one chunk queueing for the pool
QueueMaxSize == 1
QueueFaults == 0
\* how many callers' contexts may end (be cancelled or time out) in each case
SoloCtx == 1
RetryCtx == 0
SharedCtx == 0
QueueCtx == 2
\* the longest stream handed to BufBytes.write, the largest p handed to
\* BufBytes.Read, and how many reads of the stream may fail
MaxStream == 5
MaxRead == 3
StreamFaults == 1
\* how many Fs instances NewFs creates, and the largest
\* max_upload_thread_count one of them is configured with
MaxFs == 3
MaxThreads == 3
\* the interval of a rateControl, in seconds, how long the clock runs, and
\* how many calls of fail() and of wait() are made
Interval == 1
MaxTime == 4
MaxFailCalls == 5
MaxWaitCalls == 2

\* ------------------------------------------------------- program constants
ChunkAttempts == 5
EmptyFileAttempts == 3
SingleAttempts == 3
MergeAttempts == 3
ErrChunkStateExpired == 31363
ErrInsertForbid == 31200
HTTPEntityTooLarge == 413

\* status values of the uploader closure
retry == 1
failed == 2

\* rateControl: c.failures.init(6), len() >= 5, c.interval*6, time.Second*10
Capacity == 6
Threshold == 5
HorizonFactor == 6
Cooldown == 10

\* ------------------------------------------------------------ error values
\* an error is <<origin, type, code>>; NoErr is Go's nil
NoErr == <<"nil", "", 0>>
CtxCanceled == <<"ctx", "canceled", 0>>
CtxDeadline == <<"ctx", "deadline", 0>>
ReadErr == <<"read", "io", 0>>
PlaceholderErr == <<"placeholder", "net", 0>>
SingleErr == <<"single", "net", 0>>
ChunkErr(k, st) == <<"chunk", IF st = failed THEN "fatal" ELSE "retry", k>>
MergeErrs == { <<"merge", "remote", ErrChunkStateExpired>>,
               <<"merge", "remote", ErrInsertForbid>>,
               <<"merge", "net", HTTPEntityTooLarge>>,
               <<"merge", "net", 0>> }

\* HTTP status of a response; 0 stands for a transport error without response
HTTPCodes == {200, 400, 401, 403, 413, 500, 0}
\* the statuses after which sending the same payload again is futile
Rejections == {400, 401, 403, 413}

\* ------------------------------------------------------------------ helpers
Jobs == 1 .. NumJobs
Slots == 1 .. ThreadCount
\* the Fs instances of the process
FsIds == 1 .. MaxFs
\* index of the cancellation case in the select cases (cases[threadCount])
CancelCase == ThreadCount + 1

Min(a, b) == IF a < b THEN a ELSE b

\* int(math.Ceil(float64(size) / float64(chunkSize)))
chunkCount(sz) == IF sz % ChunkSize = 0 THEN sz \div ChunkSize ELSE (sz \div ChunkSize) + 1

Chunks(sz) == 0 .. (chunkCount(sz) - 1)

\* length of chunk k of an object of sz bytes
chunkLen(sz, k) ==
    IF k < chunkCount(sz) - 1 THEN ChunkSize ELSE sz - (chunkCount(sz) - 1) * ChunkSize

\* the checksum the remote returns for a request body: identifies the bytes
\* (stream, offset, length) that were sent; <<>> is the empty string
NoSum == <<>>
Md5(b) == <<"md5">> \o b

\* the classification without its case 31363 returning true
shouldReCreateSuperFileNotExpired(e) ==
    IF e[2] = "remote"
    THEN (IF e[3] = ErrChunkStateExpired THEN FALSE
          ELSE IF e[3] = ErrInsertForbid THEN TRUE
          ELSE TRUE)
    ELSE IF e[2] = "net"
         THEN (IF e[3] = HTTPEntityTooLarge THEN FALSE ELSE TRUE)
         ELSE TRUE

\* the classification without its 413 test
shouldReCreateSuperFileAlways(e) == TRUE

shouldReCreateSuperFile(e) ==
    IF e[2] = "remote"
    THEN (IF e[3] = ErrChunkStateExpired THEN TRUE
          ELSE IF e[3] = ErrInsertForbid THEN TRUE
          ELSE TRUE)
    ELSE IF e[2] = "net"
         THEN (IF e[3] = HTTPEntityTooLarge THEN FALSE ELSE TRUE)
         ELSE TRUE

\* ---------------------------------------------------------------- variables
VARIABLES
    size,        \* src.Size() of each Update call
    ctx,         \* the caller's context: "live", "canceled", "deadline"
    pc,          \* position of the orchestrating sequence of each Update
    tries,       \* loop counter i of the orchestrator's current retry loop
    remaining,   \* bytes not yet cut into chunks
    chunkIndex,  \* index of the next chunk
    bufIndex,    \* index chosen by the last reflect.Select
    checksums,   \* checksums[j][k]
    returnErr,   \* the named result, shared with the goroutines
    result,      \* what Update returned to its caller
    cancelCtx,   \* cancelCtx is done
    allCancelCtx,\* allCancelCtx is done
    watcher,     \* position of the context watcher goroutine
    holder,      \* position and attempts of the placeholder goroutine
    wg,          \* the WaitGroup counter
    up,          \* up[j][k]: the uploader goroutine of chunk k
    done,        \* done[s]: tokens in slot s's availability channel
    buf,         \* buf[s]: len, i and contents of slot s
    inPos,       \* bytes already consumed from the input stream
    objSize,     \* o.size (-1: never set by this call)
    faults,      \* failures of remote calls and stream reads still to come
    ctxLeft,     \* caller contexts that may still end
    firstErr,    \* history: first non-nil error passed to cancel
    mergeCalls,  \* history: number of merge calls made
    claimed,     \* history: slot tokens received and not yet sent back
    mergeErrs,   \* history: what each merge call of the job returned
    lastWrite,   \* history: the last BufBytes.write called on its own
    clock,       \* time.Now(), in seconds
    failures,    \* c.failures: the ring of failure times
    lock,        \* c.lock: "free", or "held" by a cooldown
    ticker,      \* ticks waiting in the channel c.ticker (it buffers one)
    pending,     \* goroutines of fail() waiting for failuresLock: their now
    sleeper,     \* the goroutine of fail() that holds failuresLock asleep
    waiter,      \* a caller of wait(): position and time of the call
    recorded,    \* history: the failures put in the ring: how many, when
    waited,      \* history: the last wait() that returned
    failCalls,   \* calls of fail() made
    waitCalls,   \* calls of wait() made
    pool,        \* len(uploadBufBytesSlice)
    opt,         \* opt[f]: max_upload_thread_count of Fs f (0: no such Fs yet)
    cases        \* the select cases the last Update built, and for which Fs

\* the state of one rateControl
rcVars == << clock, failures, lock, ticker, pending, sleeper, waiter, recorded,
            waited, failCalls, waitCalls >>

\* the state of the uploads and of the buffer pool
uploadVars == << size, ctx, pc, tries, remaining, chunkIndex, bufIndex, checksums,
                 returnErr, result, cancelCtx, allCancelCtx, watcher, holder, wg,
                 up, done, buf, inPos, objSize, faults, ctxLeft, firstErr,
                 mergeCalls, claimed, mergeErrs, lastWrite >>

\* the package-level buffer pool and the Fs instances that share it
poolVars == << pool, opt, cases >>

vars == << uploadVars, rcVars, poolVars >>

\* io.ReadFull(in, r.b) on a stream with `left` bytes remaining
ReadFull(left) ==
    [n |-> Min(ChunkSize, left),
     err |-> IF left = 0 THEN "EOF"
             ELSE IF left < ChunkSize THEN "ErrUnexpectedEOF" ELSE "nil"]

\* BufBytes.write: the slot after a read that did not fail
written(j) ==
    [len |-> ReadFull(size[j] - inPos[j]).n, i |-> 0, data |-> <<j, inPos[j]>>]

\* does BufBytes.write return nil for the result of io.ReadFull
writeOk(r) == r.err = "nil" \/ r.err = "ErrUnexpectedEOF"

\* the request sent without resetting the cursor
rewindSkipped(b) == b

\* uploadTmpFileFunc: bufBytes.i = 0
rewind(b) == [b EXCEPT !.i = 0]

\* BufBytes.Read until io.EOF: the bytes r.b[r.i:r.len] as they are sent
body(b) == <<b.data[1], b.data[2] + b.i, b.len - b.i>>

\* the loop test written with <= : one attempt too many
moreChunkAttemptsOffByOne(t) == t <= ChunkAttempts

\* for i := 0; i < 5; i++ (t attempts made so far)
moreChunkAttempts(t) == t < ChunkAttempts

\* the loop test written with <= : one attempt too many
moreEmptyFileAttemptsOffByOne(t) == t <= EmptyFileAttempts

\* size == 0: for i := 0; i < 3; i++ (t attempts made so far)
moreEmptyFileAttempts(t) == t < EmptyFileAttempts

\* the switch without its 413 case
classifyWithout413(code, st) == IF code \in {400, 401, 403} THEN failed ELSE st

\* case 400, 401, 403, 413: status = failed
classify(code, st) == IF code \in {400, 401, 403, 413} THEN failed ELSE st

\* no BufBytes.write called on its own yet
\* no Update has built its select cases yet
NoCases == [fs |-> 0, list |-> << >>, panic |-> FALSE]

NoWrite == [slot |-> 0, left |-> 0, broken |-> FALSE, err |-> "none"]

\* a receive that leaves the token in the channel
recvKeepsToken(s) == done' = done

\* <-bufBytes.done
recv(s) == done' = [done EXCEPT ![s] = 0]

\* bufBytes.done <- 0 (blocks while the channel is full)
send(s) == done[s] = 0 /\ done' = [done EXCEPT ![s] = 1]

\* the closure without its assignment to returnErr
cancelWithoutError(j, err) ==
    /\ returnErr' = returnErr
    /\ cancelCtx' = [cancelCtx EXCEPT ![j] = TRUE]
    /\ firstErr' = [firstErr EXCEPT ![j] = IF @ = NoErr THEN err ELSE @]

\* the cancel closure: record the error under returnErrLock, cancel cancelCtx
cancel(j, err) ==
    /\ returnErr' = [returnErr EXCEPT ![j] = IF err # NoErr THEN err ELSE @]
    /\ cancelCtx' = [cancelCtx EXCEPT ![j] = TRUE]
    /\ firstErr' = [firstErr EXCEPT ![j] = IF @ = NoErr THEN err ELSE @]

\* onSuccess: o.size = size
onSuccess(j) == objSize' = [objSize EXCEPT ![j] = size[j]]

\* ctx.Err()
ctxErr(j) == IF ctx[j] = "canceled" THEN CtxCanceled
             ELSE IF ctx[j] = "deadline" THEN CtxDeadline ELSE NoErr

\* an uploader goroutine: position, attempts made, its slot, the closure's
\* status, how the loop was left; and (history) whether the remote answered
\* its last request with one of the statuses that reject the payload for good
NoUp == [pc |-> "none", tries |-> 0, slot |-> 0, status |-> retry, res |-> "none",
         rejected |-> FALSE]

\* ---------------------------------------------------------- the rateControl
\* the retention horizon c.interval*6
Horizon == Interval * HorizonFactor

\* the zero time.Time of a slot never written: older than any horizon
ZeroTime == 0 - Horizon - 1

\* ringBuffer.len
len(r) ==
    LET l == r.rear - r.front
    IN IF l < 0 THEN l + r.length ELSE l

\* ringBuffer.next
next(r, i) == IF i = r.length THEN 0 ELSE i

\* ringBuffer.enqueue
enqueue(r, time1) == [r EXCEPT !.data[r.rear] = time1, !.rear = next(r, r.rear)]

\* ringBuffer.dequeue
dequeue(r) == [r EXCEPT !.front = next(r, r.front)]

\* fail: the loop that drops the entries older than the horizon
RECURSIVE evict(_, _)
evict(r, now) ==
    IF r.front = r.rear THEN r
    ELSE IF now - r.data[r.front] > Horizon THEN evict(dequeue(r), now)
    ELSE r

Max(a, b) == IF a > b THEN a ELSE b

\* no failure put in the ring yet
NoneRecorded == [n |-> 0, lo |-> 0, hi |-> 0, at |-> 0]

\* a sequence without its i-th element
Without(seq, i) == SubSeq(seq, 1, i - 1) \o SubSeq(seq, i + 1, Len(seq))

\* rateControl.init and ringBuffer.init; nobody has called wait() or fail()
init ==
    /\ clock = 0
    /\ failures = [data |-> [i \in 0 .. (Capacity - 1) |-> ZeroTime],
                   length |-> Capacity, front |-> 0, rear |-> 0]
    /\ lock = "free"
    /\ ticker = 0
    /\ pending = << >>
    /\ sleeper = [pc |-> "out", wake |-> 0]
    /\ waiter = [pc |-> "out", start |-> 0, armed |-> FALSE]
    /\ recorded = NoneRecorded
    /\ waited = [armed |-> FALSE, dur |-> 0]
    /\ failCalls = 0
    /\ waitCalls = 0

\* the state before Update is called for the jobs of `active` (the other
\* jobs are never started), with the given sizes and environment budgets,
\* after NewFs has made Fs 1 with max_upload_thread_count = threads and with
\* it the pool (threads = 0: before any NewFs)
InitPool(active, maxSize, nFaults, nCtx, threads) ==
    /\ size \in [Jobs -> 0 .. maxSize]
    /\ \A j \in Jobs \ active : size[j] = 0
    /\ ctx = [j \in Jobs |-> "live"]
    /\ pc = [j \in Jobs |-> IF j \in active THEN "start" ELSE "idle"]
    /\ tries = [j \in Jobs |-> 0]
    /\ remaining = [j \in Jobs |-> 0]
    /\ chunkIndex = [j \in Jobs |-> 0]
    /\ bufIndex = [j \in Jobs |-> 0]
    /\ checksums = [j \in Jobs |-> [k \in Chunks(size[j]) |-> NoSum]]
    /\ returnErr = [j \in Jobs |-> NoErr]
    /\ result = [j \in Jobs |-> NoErr]
    /\ cancelCtx = [j \in Jobs |-> FALSE]
    /\ allCancelCtx = [j \in Jobs |-> FALSE]
    /\ watcher = [j \in Jobs |-> "off"]
    /\ holder = [j \in Jobs |-> [pc |-> "off", tries |-> 0]]
    /\ wg = [j \in Jobs |-> 0]
    /\ up = [j \in Jobs |-> [k \in Chunks(size[j]) |-> NoUp]]
    /\ done = [s \in Slots |-> 1]
    /\ buf = [s \in Slots |-> [len |-> 0, i |-> 0, data |-> <<0, 0>>]]
    /\ inPos = [j \in Jobs |-> 0]
    /\ objSize = [j \in Jobs |-> -1]
    /\ faults = nFaults
    /\ ctxLeft = nCtx
    /\ firstErr = [j \in Jobs |-> NoErr]
    /\ mergeCalls = [j \in Jobs |-> 0]
    /\ claimed = 0
    /\ mergeErrs = [j \in Jobs |-> << >>]
    /\ lastWrite = NoWrite
    /\ pool = threads
    /\ opt = [f \in FsIds |-> IF f = 1 THEN threads ELSE 0]
    /\ cases = NoCases
    /\ init

\* the uploads of one Fs, the pool made for its thread count
InitWith(active, maxSize, nFaults, nCtx) ==
    InitPool(active, maxSize, nFaults, nCtx, ThreadCount)

\* one upload of any size with few failures; one small upload with enough
\* failures to run every retry loop dry; concurrent small uploads; more
\* uploads of at most one chunk than the pool has slots
Init ==
    \/ InitWith({1}, MaxSize, MaxFaults, SoloCtx)
    \/ InitWith({1}, RetryMaxSize, RetryFaults, RetryCtx)
    \/ InitWith(1 .. SharedJobs, SharedMaxSize, SharedFaults, SharedCtx)
    \/ InitWith(Jobs, QueueMaxSize, QueueFaults, QueueCtx)

\* ------------------------------------------------------- the orchestrator
multi(j) == chunkCount(size[j]) > 1

\* Update up to the first blocking point of the path chosen by size
Start(j) ==
    /\ pc[j] = "start"
    /\ IF size[j] = 0
       THEN /\ pc' = [pc EXCEPT ![j] = "empty"]
            /\ UNCHANGED <<watcher, holder, wg, remaining, chunkIndex>>
       ELSE IF chunkCount(size[j]) = 1
       THEN /\ pc' = [pc EXCEPT ![j] = "selS"]
            /\ UNCHANGED <<watcher, holder, wg, remaining, chunkIndex>>
       ELSE /\ watcher' = [watcher EXCEPT ![j] = "wait"]
            /\ holder' = [holder EXCEPT ![j] = [pc |-> "run", tries |-> 0]]
            /\ wg' = [wg EXCEPT ![j] = 1]
            /\ remaining' = [remaining EXCEPT ![j] = size[j]]
            /\ chunkIndex' = [chunkIndex EXCEPT ![j] = 0]
            /\ pc' = [pc EXCEPT ![j] = IF size[j] > 0 THEN "sel" ELSE "join"]
    /\ UNCHANGED <<rcVars, poolVars, lastWrite, mergeErrs, size, ctxLeft, ctx, tries, bufIndex, checksums, returnErr, result,
                   cancelCtx, allCancelCtx, up, done, buf, inPos, objSize,
                   faults, firstErr, mergeCalls, claimed>>

\* size == 0: one attempt of createEmptyFileFunc
EmptyFile(j) ==
    /\ pc[j] = "empty"
    /\ \/ /\ onSuccess(j)
          /\ pc' = [pc EXCEPT ![j] = "ret"]
          /\ UNCHANGED <<tries, returnErr, faults>>
       \/ /\ faults > 0
          /\ faults' = faults - 1
          /\ tries' = [tries EXCEPT ![j] = @ + 1]
          /\ IF moreEmptyFileAttempts(tries[j] + 1)
             THEN UNCHANGED <<pc, returnErr>>
             ELSE /\ returnErr' = [returnErr EXCEPT ![j] = PlaceholderErr]
                  /\ pc' = [pc EXCEPT ![j] = "ret"]
          /\ UNCHANGED objSize
    /\ UNCHANGED <<rcVars, poolVars, lastWrite, mergeErrs, size, ctxLeft, ctx, remaining, chunkIndex, bufIndex, checksums, result,
                   cancelCtx, allCancelCtx, watcher, holder, wg, up, done, buf,
                   inPos, firstErr, mergeCalls, claimed>>

\* chunkCount == 1: reflect.Select over the slots and ctx.Done(), the
\* ctx.Err() test, the indexing of the pool and bufBytes.write(in); the
\* deferred release runs when the function returns
AcquireSingle(j) ==
    /\ pc[j] = "selS"
    /\ \E c \in 1 .. CancelCase :
         LET r == ReadFull(size[j] - inPos[j])
         IN /\ \/ c \in Slots /\ done[c] = 1
               \/ c = CancelCase /\ ctx[j] # "live"
            /\ bufIndex' = [bufIndex EXCEPT ![j] = c]
            /\ IF ctx[j] = "canceled"
               THEN \* return ctx.Err(): a token received above is not sent back
                    /\ IF c \in Slots
                       THEN recv(c) /\ claimed' = claimed + 1
                       ELSE UNCHANGED <<done, claimed>>
                    /\ returnErr' = [returnErr EXCEPT ![j] = CtxCanceled]
                    /\ pc' = [pc EXCEPT ![j] = "ret"]
                    /\ UNCHANGED <<buf, inPos, faults>>
               ELSE IF c \notin Slots
               THEN \* uploadBufBytesSlice[threadCount]: index out of range
                    /\ pc' = [pc EXCEPT ![j] = "panic"]
                    /\ UNCHANGED <<done, claimed, returnErr, buf, inPos, faults>>
               ELSE \/ /\ writeOk(r)
                       /\ recv(c)
                       /\ claimed' = claimed + 1
                       /\ buf' = [buf EXCEPT ![c] = written(j)]
                       /\ inPos' = [inPos EXCEPT ![j] = @ + r.n]
                       /\ pc' = [pc EXCEPT ![j] = "upS"]
                       /\ UNCHANGED <<returnErr, faults>>
                    \/ \* write fails: the token is received and sent back
                       /\ \/ ~writeOk(r) /\ UNCHANGED faults
                          \/ faults > 0 /\ faults' = faults - 1
                       /\ returnErr' = [returnErr EXCEPT ![j] = ReadErr]
                       /\ pc' = [pc EXCEPT ![j] = "ret"]
                       /\ UNCHANGED <<done, claimed, buf, inPos>>
    /\ UNCHANGED <<rcVars, poolVars, lastWrite, mergeErrs, size, ctxLeft, ctx, tries, remaining, chunkIndex, checksums, result,
                   cancelCtx, allCancelCtx, watcher, holder, wg, up, objSize,
                   firstErr, mergeCalls>>

\* chunkCount == 1: one attempt of uploadFileFunc
UploadSingle(j) ==
    /\ pc[j] = "upS"
    /\ LET s == bufIndex[j]
       IN /\ buf' = [buf EXCEPT ![s].i = buf[s].len]
          /\ \/ /\ onSuccess(j)
                /\ send(s)
                /\ claimed' = claimed - 1
                /\ pc' = [pc EXCEPT ![j] = "ret"]
                /\ UNCHANGED <<tries, returnErr, faults>>
             \/ /\ faults > 0
                /\ faults' = faults - 1
                /\ tries' = [tries EXCEPT ![j] = @ + 1]
                /\ IF tries[j] + 1 < SingleAttempts
                   THEN UNCHANGED <<pc, returnErr, done, claimed>>
                   ELSE /\ returnErr' = [returnErr EXCEPT ![j] = SingleErr]
                        /\ send(s)
                        /\ claimed' = claimed - 1
                        /\ pc' = [pc EXCEPT ![j] = "ret"]
                /\ UNCHANGED objSize
    /\ UNCHANGED <<rcVars, poolVars, lastWrite, mergeErrs, size, ctxLeft, ctx, remaining, chunkIndex, bufIndex, checksums, result,
                   cancelCtx, allCancelCtx, watcher, holder, wg, up, inPos,
                   firstErr, mergeCalls>>

\* one iteration of the dispatch loop: reflect.Select over the slots and
\* allCancelCtx.Done(), the allCancelCtx.Err() test, bufBytes.write(in), then
\* wg.Add(1) and the go statement of the chunk's uploader
Dispatch(j) ==
    /\ pc[j] = "sel"
    /\ \E c \in 1 .. CancelCase :
         LET r == ReadFull(size[j] - inPos[j])
             k == chunkIndex[j]
             chunkSizeIn == IF remaining[j] > ChunkSize THEN ChunkSize ELSE remaining[j]
         IN /\ \/ c \in Slots /\ done[c] = 1
               \/ c = CancelCase /\ allCancelCtx[j]
            /\ IF allCancelCtx[j]
               THEN \* bare return: a token received above is not sent back
                    /\ IF c \in Slots
                       THEN recv(c) /\ claimed' = claimed + 1
                       ELSE UNCHANGED <<done, claimed>>
                    /\ pc' = [pc EXCEPT ![j] = "ret"]
                    /\ UNCHANGED <<returnErr, buf, inPos, up, wg, remaining,
                                   chunkIndex, faults>>
               ELSE \/ /\ writeOk(r)
                       /\ recv(c)
                       /\ claimed' = claimed + 1
                       /\ buf' = [buf EXCEPT ![c] = written(j)]
                       /\ inPos' = [inPos EXCEPT ![j] = @ + r.n]
                       /\ up' = [up EXCEPT ![j][k] = [NoUp EXCEPT !.pc = "try", !.slot = c]]
                       /\ wg' = [wg EXCEPT ![j] = @ + 1]
                       /\ remaining' = [remaining EXCEPT ![j] = @ - chunkSizeIn]
                       /\ chunkIndex' = [chunkIndex EXCEPT ![j] = @ + 1]
                       /\ pc' = [pc EXCEPT ![j] = IF remaining[j] - chunkSizeIn > 0
                                                  THEN "sel" ELSE "join"]
                       /\ UNCHANGED <<returnErr, faults>>
                    \/ \* write fails: bufBytes.done <- 0; return err
                       /\ \/ ~writeOk(r) /\ UNCHANGED faults
                          \/ faults > 0 /\ faults' = faults - 1
                       /\ returnErr' = [returnErr EXCEPT ![j] = ReadErr]
                       /\ pc' = [pc EXCEPT ![j] = "ret"]
                       /\ UNCHANGED <<done, claimed, buf, inPos, up, wg, remaining,
                                      chunkIndex>>
    /\ UNCHANGED <<rcVars, poolVars, lastWrite, mergeErrs, size, ctxLeft, ctx, tries, bufIndex, checksums, result, cancelCtx,
                   allCancelCtx, watcher, holder, objSize, firstErr, mergeCalls>>

\* the join left out
wgWaitSkipped(j) == TRUE

\* wg.Wait() returns
wgWait(j) == wg[j] = 0

\* wg.Wait() and the test of allCancelCtx after it
Join(j) ==
    /\ pc[j] = "join"
    /\ wgWait(j)
    /\ IF allCancelCtx[j]
       THEN pc' = [pc EXCEPT ![j] = "ret"] /\ UNCHANGED tries
       ELSE pc' = [pc EXCEPT ![j] = "merge"] /\ tries' = [tries EXCEPT ![j] = 1]
    /\ UNCHANGED <<rcVars, poolVars, lastWrite, mergeErrs, size, ctxLeft, ctx, remaining, chunkIndex, bufIndex, checksums,
                   returnErr, result, cancelCtx, allCancelCtx, watcher, holder, wg,
                   up, done, buf, inPos, objSize, faults, firstErr, mergeCalls,
                   claimed>>

\* one iteration of the merge loop: createSuperFileFunc and its classification
Merge(j) ==
    /\ pc[j] = "merge"
    /\ mergeCalls' = [mergeCalls EXCEPT ![j] = @ + 1]
    /\ \/ /\ onSuccess(j)
          /\ mergeErrs' = [mergeErrs EXCEPT ![j] = Append(@, NoErr)]
          /\ returnErr' = [returnErr EXCEPT ![j] = NoErr]
          /\ pc' = [pc EXCEPT ![j] = "ret"]
          /\ UNCHANGED <<tries, faults>>
       \/ /\ faults > 0
          /\ faults' = faults - 1
          /\ \E e \in MergeErrs :
                /\ mergeErrs' = [mergeErrs EXCEPT ![j] = Append(@, e)]
                /\ IF tries[j] >= MergeAttempts \/ ~shouldReCreateSuperFile(e)
                   THEN /\ returnErr' = [returnErr EXCEPT ![j] = e]
                        /\ pc' = [pc EXCEPT ![j] = "ret"]
                        /\ UNCHANGED tries
                   ELSE /\ tries' = [tries EXCEPT ![j] = @ + 1]
                        /\ UNCHANGED <<returnErr, pc>>
          /\ UNCHANGED objSize
    /\ UNCHANGED <<rcVars, poolVars, lastWrite, size, ctxLeft, ctx, remaining, chunkIndex, bufIndex, checksums, result,
                   cancelCtx, allCancelCtx, watcher, holder, wg, up, done, buf,
                   inPos, firstErr, claimed>>

\* the deferred cancel(nil) of the multi-chunk path, then the return itself
Return(j) ==
    /\ pc[j] = "ret"
    /\ IF multi(j) THEN cancel(j, NoErr) ELSE UNCHANGED <<returnErr, cancelCtx, firstErr>>
    /\ result' = [result EXCEPT ![j] = returnErr[j]]
    /\ pc' = [pc EXCEPT ![j] = "done"]
    /\ UNCHANGED <<rcVars, poolVars, lastWrite, mergeErrs, size, ctxLeft, ctx, tries, remaining, chunkIndex, bufIndex, checksums,
                   allCancelCtx, watcher, holder, wg, up, done, buf, inPos, objSize,
                   faults, mergeCalls, claimed>>

\* ---------------------------------------------------------- the goroutines
\* watcher: case <-ctx.Done(): cancel(ctx.Err()), cancelAll still to come
WatcherCtx(j) ==
    /\ watcher[j] = "wait"
    /\ ctx[j] # "live"
    /\ cancel(j, ctxErr(j))
    /\ watcher' = [watcher EXCEPT ![j] = "ctxd"]
    /\ UNCHANGED <<rcVars, poolVars, lastWrite, mergeErrs, size, ctxLeft, ctx, pc, tries, remaining, chunkIndex, bufIndex,
                   checksums, result, allCancelCtx, holder, wg, up, done, buf,
                   inPos, objSize, faults, mergeCalls, claimed>>

\* watcher: cancelAll(), after cancel(ctx.Err()) or on case <-cancelCtx.Done()
WatcherCancelAll(j) ==
    /\ \/ watcher[j] = "ctxd"
       \/ watcher[j] = "wait" /\ cancelCtx[j]
    /\ allCancelCtx' = [allCancelCtx EXCEPT ![j] = TRUE]
    /\ watcher' = [watcher EXCEPT ![j] = "end"]
    /\ UNCHANGED <<rcVars, poolVars, lastWrite, mergeErrs, size, ctxLeft, ctx, pc, tries, remaining, chunkIndex, bufIndex,
                   checksums, returnErr, result, cancelCtx, holder, wg, up, done,
                   buf, inPos, objSize, faults, firstErr, mergeCalls, claimed>>

\* placeholder goroutine: one attempt of createEmptyFileFunc; on leaving the
\* loop cancel(pcsErr) if all attempts failed, and the deferred wg.Done()
Placeholder(j) ==
    /\ holder[j].pc = "run"
    /\ \/ /\ holder' = [holder EXCEPT ![j].pc = "end"]
          /\ wg' = [wg EXCEPT ![j] = @ - 1]
          /\ UNCHANGED <<returnErr, cancelCtx, firstErr, faults>>
       \/ /\ faults > 0
          /\ faults' = faults - 1
          /\ IF holder[j].tries + 1 < EmptyFileAttempts
             THEN /\ holder' = [holder EXCEPT ![j].tries = @ + 1]
                  /\ UNCHANGED <<returnErr, cancelCtx, firstErr, wg>>
             ELSE /\ holder' = [holder EXCEPT ![j] = [pc |-> "failed", tries |-> @.tries + 1]]
                  /\ cancel(j, PlaceholderErr)
                  /\ wg' = [wg EXCEPT ![j] = @ - 1]
    /\ UNCHANGED <<rcVars, poolVars, lastWrite, mergeErrs, size, ctxLeft, ctx, pc, tries, remaining, chunkIndex, bufIndex,
                   checksums, result, allCancelCtx, watcher, up, done, buf, inPos,
                   objSize, mergeCalls, claimed>>

\* uploader of chunk k: one iteration of the retry loop. uploadTmpFileFunc
\* sets bufBytes.i = 0, sends the slot's bytes and classifies the response;
\* on leaving the loop the deferred wg.Done() runs
Uploader(j, k) ==
    /\ up[j][k].pc = "try"
    /\ LET s == up[j][k].slot
           n == up[j][k].tries + 1
       IN /\ buf' = [buf EXCEPT ![s].i = buf[s].len]
          /\ \E code \in HTTPCodes :
               LET st == classify(code, up[j][k].status)
               IN IF code = 200
                  THEN /\ checksums' = [checksums EXCEPT
                                          ![j][k] = Md5(body(rewind(buf[s])))]
                       /\ up' = [up EXCEPT ![j][k].pc = "rel", ![j][k].tries = n,
                                           ![j][k].res = "ok"]
                       /\ wg' = [wg EXCEPT ![j] = @ - 1]
                       /\ UNCHANGED <<returnErr, cancelCtx, firstErr, faults>>
                  ELSE /\ faults > 0
                       /\ faults' = faults - 1
                       /\ UNCHANGED checksums
                       /\ IF st = failed
                          THEN /\ up' = [up EXCEPT ![j][k].pc = "rel", ![j][k].tries = n,
                                                   ![j][k].status = st, ![j][k].rejected = code \in Rejections,
                                                   ![j][k].res = "fatal"]
                               /\ cancel(j, ChunkErr(k, st))
                               /\ wg' = [wg EXCEPT ![j] = @ - 1]
                          ELSE IF moreChunkAttempts(n)
                          THEN /\ up' = [up EXCEPT ![j][k].tries = n, ![j][k].rejected = code \in Rejections]
                               /\ UNCHANGED <<returnErr, cancelCtx, firstErr, wg>>
                          ELSE /\ up' = [up EXCEPT ![j][k].pc = "rel", ![j][k].tries = n,
                                                   ![j][k].rejected = code \in Rejections,
                                                   ![j][k].res = "exhausted"]
                               /\ cancel(j, ChunkErr(k, st))
                               /\ wg' = [wg EXCEPT ![j] = @ - 1]
    /\ UNCHANGED <<rcVars, poolVars, lastWrite, mergeErrs, size, ctxLeft, ctx, pc, tries, remaining, chunkIndex, bufIndex, result,
                   allCancelCtx, watcher, holder, done, inPos, objSize,
                   mergeCalls, claimed>>

\* uploader of chunk k: the deferred bufBytes.done <- 0
Deferred(j, k) ==
    /\ up[j][k].pc = "rel"
    /\ send(up[j][k].slot)
    /\ claimed' = claimed - 1
    /\ up' = [up EXCEPT ![j][k] = [NoUp EXCEPT !.pc = "fin", !.res = up[j][k].res]]
    /\ UNCHANGED <<rcVars, poolVars, lastWrite, mergeErrs, size, ctxLeft, ctx, pc, tries, remaining, chunkIndex, bufIndex,
                   checksums, returnErr, result, cancelCtx, allCancelCtx, watcher,
                   holder, wg, buf, inPos, objSize, faults, firstErr, mergeCalls>>

\* some uploader of job j makes an attempt
Attempt(j) == \E k \in Chunks(size[j]) : Uploader(j, k)

\* some uploader of job j that has left its loop sends its slot back
Release(j) == \E k \in Chunks(size[j]) : Deferred(j, k)

\* ---------------------------------------------------------- the environment
\* the caller cancels ctx, or its deadline passes, while Update is running
CtxDone(j) ==
    /\ ctx[j] = "live"
    /\ pc[j] \notin {"done", "panic"}
    /\ ctxLeft > 0
    /\ ctxLeft' = ctxLeft - 1
    /\ \E c \in {"canceled", "deadline"} : ctx' = [ctx EXCEPT ![j] = c]
    /\ UNCHANGED <<rcVars, poolVars, lastWrite, mergeErrs, size, pc, tries, remaining, chunkIndex, bufIndex, checksums,
                   returnErr, result, cancelCtx, allCancelCtx, watcher, holder, wg,
                   up, done, buf, inPos, objSize, faults, firstErr, mergeCalls,
                   claimed>>

Next ==
    \E j \in Jobs :
        \/ Start(j)
        \/ EmptyFile(j)
        \/ AcquireSingle(j)
        \/ UploadSingle(j)
        \/ Dispatch(j)
        \/ Join(j)
        \/ Merge(j)
        \/ Return(j)
        \/ WatcherCtx(j)
        \/ WatcherCancelAll(j)
        \/ Placeholder(j)
        \/ CtxDone(j)
        \/ Attempt(j)
        \/ Release(j)

Spec == Init /\ [][Next]_vars

\* ------------------------------------------- the pool and the Fs instances
\* NewFs with max_upload_thread_count = n: under uploadBufLock the pool is
\* made when it is empty, with n slots
NewFs(f, n) ==
    /\ opt[f] = 0
    /\ \A g \in FsIds : g < f => opt[g] # 0
    /\ opt' = [opt EXCEPT ![f] = n]
    /\ pool' = IF pool = 0 THEN n ELSE pool
    /\ UNCHANGED <<cases, uploadVars, rcVars>>

\* cases = make([]reflect.SelectCase, threadCount+1), one receive case per
\* element of the pool at that element's index, then the cancellation case
\* at index threadCount; an index past threadCount is out of range
selectCases(threadCount, length) ==
    IF length > threadCount + 1
    THEN [list |-> [i \in 1 .. threadCount + 1 |-> "recv"], panic |-> TRUE]
    ELSE [list |-> [i \in 1 .. threadCount + 1 |->
                      IF i = threadCount + 1 THEN "cancel"
                      ELSE IF i <= length THEN "recv" ELSE "zero"],
          panic |-> FALSE]

\* an Update of an object of Fs f builds its select cases
BuildCases(f) ==
    /\ opt[f] # 0
    /\ cases' = [fs |-> f,
                 list |-> selectCases(opt[f], pool).list,
                 panic |-> selectCases(opt[f], pool).panic]
    /\ UNCHANGED <<pool, opt, uploadVars, rcVars>>

\* no Fs yet, the pool empty
PoolInit == InitPool({}, 0, 0, 0, 0)

PoolNext ==
    \E f \in FsIds : \/ \E n \in 1 .. MaxThreads : NewFs(f, n)
                      \/ BuildCases(f)

PoolSpec == PoolInit /\ [][PoolNext]_vars

\* ------------------------------------------------ the rateControl at work
\* Threshold failures or more were put in the ring since the last throttled
\* wait(), all within the horizon, the last of them at this very moment
Throttled ==
    /\ recorded.n >= Threshold
    /\ recorded.at = clock
    /\ recorded.hi - recorded.lo <= Horizon

\* fail(): now := time.Now() and the go statement
fail ==
    /\ failCalls < MaxFailCalls
    /\ failCalls' = failCalls + 1
    /\ pending' = Append(pending, clock)
    /\ UNCHANGED <<clock, failures, lock, ticker, sleeper, waiter, recorded, waited,
                   waitCalls, uploadVars, poolVars>>

\* the goroutine of fail(): from failuresLock.Lock() to the cooldown's
\* time.Sleep or, without cooldown, to failuresLock.Unlock(); and, for the
\* goroutine asleep, from the end of its sleep to failuresLock.Unlock()
failGo ==
    /\ failCalls > 0
    /\ IF sleeper.pc = "asleep"
       THEN /\ clock >= sleeper.wake
            /\ lock' = "free"
            /\ failures' = evict(failures, clock)
            /\ sleeper' = [pc |-> "out", wake |-> 0]
            /\ UNCHANGED <<pending, recorded>>
       ELSE \E i \in 1 .. Len(pending) :
              LET now == pending[i]
                  r == enqueue(failures, now)
              IN /\ pending' = Without(pending, i)
                 /\ recorded' = IF recorded.n = 0
                                 THEN [n |-> 1, lo |-> now, hi |-> now, at |-> clock]
                                 ELSE [n |-> recorded.n + 1, lo |-> Min(recorded.lo, now),
                                       hi |-> Max(recorded.hi, now), at |-> clock]
                 /\ IF len(r) >= Threshold
                    THEN IF now - r.data[r.front] > Horizon
                         THEN /\ lock' = "held"
                              /\ sleeper' = [pc |-> "asleep", wake |-> clock + Cooldown]
                              /\ failures' = r
                         ELSE /\ failures' = evict(r, clock)
                              /\ UNCHANGED <<lock, sleeper>>
                    ELSE /\ failures' = r
                         /\ UNCHANGED <<lock, sleeper>>
    /\ UNCHANGED <<clock, ticker, waiter, waited, failCalls, waitCalls, uploadVars, poolVars>>

\* a caller enters wait()
waitCall ==
    /\ waiter.pc = "out"
    /\ waitCalls < MaxWaitCalls
    /\ waitCalls' = waitCalls + 1
    /\ waiter' = [pc |-> "called", start |-> clock, armed |-> Throttled]
    /\ recorded' = IF Throttled THEN NoneRecorded ELSE recorded
    /\ UNCHANGED <<clock, failures, lock, ticker, pending, sleeper, waited, failCalls,
                   uploadVars, poolVars>>

\* wait(): c.lock.RLock(); c.lock.RUnlock()
waitLock ==
    /\ waiter.pc = "called"
    /\ lock = "free"
    /\ waiter' = [waiter EXCEPT !.pc = "ticking"]
    /\ UNCHANGED <<clock, failures, lock, ticker, pending, sleeper, recorded, waited,
                   failCalls, waitCalls, uploadVars, poolVars>>

\* wait(): <-c.ticker, and the return
waitTick ==
    /\ waiter.pc = "ticking"
    /\ ticker = 1
    /\ ticker' = 0
    /\ waited' = [armed |-> waiter.armed, dur |-> clock - waiter.start]
    /\ waiter' = [pc |-> "out", start |-> 0, armed |-> FALSE]
    /\ UNCHANGED <<clock, failures, lock, pending, sleeper, recorded, failCalls,
                   waitCalls, uploadVars, poolVars>>

\* a second passes; time.Tick puts a tick in the channel every interval and
\* drops it if the last one was not taken
Clock ==
    /\ clock < MaxTime
    /\ clock' = clock + 1
    /\ ticker' = IF (clock + 1) % Interval = 0 THEN 1 ELSE ticker
    /\ UNCHANGED <<failures, lock, pending, sleeper, waiter, recorded, waited,
                   failCalls, waitCalls, uploadVars, poolVars>>

\* one rateControl and its callers, no upload running
RateInit == InitWith({}, 0, 0, 0)

RateNext == fail \/ failGo \/ waitCall \/ waitLock \/ waitTick \/ Clock

RateSpec == RateInit /\ [][RateNext]_vars

\* --------------------------------------------------- a BufBytes on its own
\* BufBytes.write(in) on slot s, in being the stream of job 1: io.ReadFull
\* reads what is left up to the capacity, or fails for another reason than
\* the end of the stream after consuming some bytes
write(s) ==
    /\ s \in Slots
    /\ LET left == size[1] - inPos[1]
           r == ReadFull(left)
       IN \/ /\ writeOk(r)
             /\ buf' = [buf EXCEPT ![s] = written(1)]
             /\ inPos' = [inPos EXCEPT ![1] = @ + r.n]
             /\ lastWrite' = [slot |-> s, left |-> left, broken |-> FALSE, err |-> "nil"]
             /\ UNCHANGED faults
          \/ /\ ~writeOk(r)
             /\ lastWrite' = [slot |-> s, left |-> left, broken |-> FALSE, err |-> r.err]
             /\ UNCHANGED <<buf, inPos, faults>>
          \/ /\ faults > 0
             /\ faults' = faults - 1
             /\ \E n \in 0 .. r.n : inPos' = [inPos EXCEPT ![1] = @ + n]
             /\ lastWrite' = [slot |-> s, left |-> left, broken |-> TRUE, err |-> "io"]
             /\ UNCHANGED buf
    /\ UNCHANGED <<rcVars, poolVars, size, ctxLeft, ctx, pc, tries, remaining, chunkIndex, bufIndex,
                   checksums, returnErr, result, cancelCtx, allCancelCtx, watcher,
                   holder, wg, up, done, objSize, firstErr, mergeCalls, claimed,
                   mergeErrs>>

\* BufBytes.Read(p) on slot s with len(p) = n: copy(p, r.b[r.i:r.len])
Read(s, n) ==
    /\ s \in Slots
    /\ buf' = [buf EXCEPT ![s].i = @ + Min(n, buf[s].len - buf[s].i)]
    /\ UNCHANGED <<rcVars, poolVars, lastWrite, size, ctxLeft, ctx, pc, tries, remaining, chunkIndex,
                   bufIndex, checksums, returnErr, result, cancelCtx, allCancelCtx,
                   watcher, holder, wg, up, done, inPos, objSize, faults, firstErr,
                   mergeCalls, claimed, mergeErrs>>

\* a stream of up to MaxStream bytes and the pool's slots, no Update running
WriteInit == InitWith({1}, MaxStream, StreamFaults, 0)

WriteNext == \E s \in Slots : write(s) \/ \E n \in 1 .. MaxRead : Read(s, n)

WriteSpec == WriteInit /\ [][WriteNext]_vars

\* ------------------------------------------------------------- properties
Finished(j) == pc[j] \in {"done", "idle"}
\* an uploader that has been started and has not yet sent its slot back
Holding(j, k) == up[j][k].pc \in {"try", "rel"}
\* a chunk uploader or the placeholder step has cancelled the job
JobFailed(j) ==
    \/ holder[j].pc = "failed"
    \/ \E k \in Chunks(size[j]) : up[j][k].res \in {"fatal", "exhausted"}
\* the checksum of chunk k of job j's stream
SumOf(j, k) == Md5(<<j, k * ChunkSize, chunkLen(size[j], k)>>)

\* C1: the merge call is issued only when every chunk's checksum is in the
\* list, never after a chunk uploader or the placeholder step cancelled the job
C1_MergeOnlyAfterAllChunks ==
    \A j \in Jobs :
        pc[j] = "merge" =>
            /\ ~JobFailed(j)
            /\ \A k \in Chunks(size[j]) : checksums[j][k] # NoSum

\* C2: once every Update has returned and every uploader has exited, every
\* slot of the pool is available again
C2_NoSlotLeaked ==
    (\A j \in Jobs : Finished(j) /\ \A k \in Chunks(size[j]) : ~Holding(j, k))
        => \A s \in Slots : done[s] = 1

\* C3: the slots claimed and not yet released never outnumber the pool, and
\* an uploader that may send a temporary-chunk request holds a slot that is
\* claimed and that no other uploader or single-chunk upload holds
C3_SlotsInUseBounded ==
    /\ claimed <= ThreadCount
    /\ claimed = Cardinality({s \in Slots : done[s] = 0})
    /\ \A j \in Jobs : \A k \in Chunks(size[j]) :
          Holding(j, k) =>
              /\ up[j][k].slot \in Slots
              /\ done[up[j][k].slot] = 0
              /\ \A j2 \in Jobs :
                    /\ pc[j2] = "upS" => bufIndex[j2] # up[j][k].slot
                    /\ \A k2 \in Chunks(size[j2]) :
                          (Holding(j2, k2) /\ <<j2, k2>> # <<j, k>>)
                              => up[j2][k2].slot # up[j][k].slot

\* two concurrent uploads hold the whole pool between them
C3_Witness ==
    /\ claimed = ThreadCount
    /\ \E k1 \in Chunks(size[1]), k2 \in Chunks(size[SharedJobs]) :
          /\ SharedJobs > 1
          /\ up[1][k1].pc = "try"
          /\ up[SharedJobs][k2].pc = "try"

\* C4: once a chunk uploader has failed and the job's cancellation signal is
\* set, no step writes into the checksum array any more
C4_NoChecksumWriteAfterCancel ==
    [][\A j \in Jobs :
          (allCancelCtx[j] /\ \E k \in Chunks(size[j]) : up[j][k].res \in {"fatal", "exhausted"})
              => checksums'[j] = checksums[j]]_vars

\* C5: once the job's cancellation signal is set, by the caller's context or
\* by a sibling's failure, an uploader that has made an attempt makes no
\* further one
C5_NoRetryAfterCancel ==
    [][\A j \in Jobs : \A k \in Chunks(size[j]) :
          ( /\ allCancelCtx[j]
            /\ \/ ctx[j] # "live"
               \/ \E k2 \in Chunks(size[j]) : up[j][k2].res \in {"fatal", "exhausted"}
            /\ up[j][k].pc = "try"
            /\ up[j][k].tries >= 1 )
              => up'[j][k].tries = up[j][k].tries]_vars

\* C6: when chunk uploaders fail one after the other and Update returns the
\* error of one of them, it is the error that was recorded first
C6_FirstErrorWins ==
    \A j \in Jobs :
        (pc[j] = "done" /\ result[j][1] = "chunk" /\ firstErr[j][1] = "chunk")
            => result[j] = firstErr[j]

\* C7: chunks 0..count-1 are dispatched in order with the lengths of the
\* split, no index leaves the checksum array, and after a successful
\* multi-chunk Update every index has its checksum
C7_ChunksAndChecksums ==
    \A j \in Jobs :
        multi(j) =>
            /\ chunkIndex[j] <= chunkCount(size[j])
            /\ \A k \in Chunks(size[j]) :
                  /\ up[j][k].pc # "none" <=> k < chunkIndex[j]
                  /\ up[j][k].pc = "try" =>
                        /\ buf[up[j][k].slot].len = chunkLen(size[j], k)
                        /\ buf[up[j][k].slot].data = <<j, k * ChunkSize>>
            /\ (pc[j] = "done" /\ result[j] = NoErr) =>
                  /\ chunkIndex[j] = chunkCount(size[j])
                  /\ \A k \in Chunks(size[j]) : checksums[j][k] = SumOf(j, k)

\* C8: the list passed to the merge call has at position i the checksum
\* returned for the i-th chunk of the stream
C8_MergeListInChunkOrder ==
    \A j \in Jobs :
        pc[j] = "merge" => \A k \in Chunks(size[j]) : checksums[j][k] = SumOf(j, k)

\* C9: an uploader is attempted at most 5 times, is not in its loop any more
\* after 5 attempts, and leaves the loop without success or fatal status only
\* after exactly 5 attempts, having cancelled the job
C9_RetryBound ==
    \A j \in Jobs : \A k \in Chunks(size[j]) :
        /\ up[j][k].tries <= ChunkAttempts
        /\ up[j][k].pc = "try" => up[j][k].tries < ChunkAttempts
        /\ (up[j][k].pc = "rel" /\ up[j][k].res = "exhausted") =>
              /\ up[j][k].tries = ChunkAttempts
              /\ up[j][k].status = retry
              /\ cancelCtx[j]
              /\ firstErr[j] # NoErr

\* an uploader has left its loop after 5 retryable failures
C9_Witness ==
    \E j \in Jobs : \E k \in Chunks(size[j]) :
        /\ up[j][k].pc = "rel"
        /\ up[j][k].res = "exhausted"
        /\ up[j][k].tries = ChunkAttempts

\* C10: an uploader whose last response was 400, 401, 403 or 413 has left its
\* loop at that attempt and has cancelled the job
C10_FatalShortCircuits ==
    \A j \in Jobs : \A k \in Chunks(size[j]) :
        (up[j][k].rejected \/ up[j][k].status = failed) =>
            /\ up[j][k].rejected /\ up[j][k].status = failed
            /\ up[j][k].pc = "rel"
            /\ up[j][k].res = "fatal"
            /\ cancelCtx[j]
            /\ firstErr[j] # NoErr

\* an uploader has left its loop after a fatal status on its first attempt
C10_Witness ==
    \E j \in Jobs : \E k \in Chunks(size[j]) :
        /\ up[j][k].rejected
        /\ up[j][k].tries = 1
        /\ up[j][k].pc = "rel"

\* the two merge errors the classification names
MergeExpired == <<"merge", "remote", ErrChunkStateExpired>>
MergeTooLarge == <<"merge", "net", HTTPEntityTooLarge>>
\* no other Update call was started
Alone(j) == \A j2 \in Jobs \ {j} : pc[j2] = "idle"

\* C11: a zero-byte upload only ever attempts the empty-file upload, at most
\* 3 times: it selects no slot, starts no goroutine, makes no temporary-chunk
\* upload and no merge call, and returns success with size 0 recorded or,
\* after 3 failed attempts, the error with no size recorded
C11_EmptyObjectPath ==
    \A j \in Jobs :
        (pc[j] # "idle" /\ size[j] = 0) =>
            /\ pc[j] \in {"start", "empty", "ret", "done"}
            /\ tries[j] <= EmptyFileAttempts
            /\ pc[j] = "empty" => tries[j] < EmptyFileAttempts
            /\ bufIndex[j] = 0
            /\ Alone(j) => (claimed = 0 /\ \A s \in Slots : done[s] = 1)
            /\ watcher[j] = "off" /\ holder[j].pc = "off" /\ wg[j] = 0
            /\ Chunks(size[j]) = {}
            /\ mergeCalls[j] = 0
            /\ objSize[j] \in {-1, 0}
            /\ pc[j] = "done" =>
                  \/ result[j] = NoErr /\ objSize[j] = 0
                  \/ result[j] = PlaceholderErr /\ objSize[j] = -1
                        /\ tries[j] = EmptyFileAttempts

\* a zero-byte upload has succeeded at its third attempt
C11_Witness ==
    \E j \in Jobs :
        /\ size[j] = 0
        /\ pc[j] = "done"
        /\ tries[j] = EmptyFileAttempts - 1
        /\ result[j] = NoErr
        /\ objSize[j] = 0

\* C12: an upload of at most one chunk starts no placeholder step, no chunk
\* uploader and no merge call; it sends its request from a slot it has
\* acquired and filled with the whole object, and when it has returned the
\* slot is available again
C12_SingleChunkPath ==
    \A j \in Jobs :
        (pc[j] # "idle" /\ chunkCount(size[j]) = 1) =>
            /\ holder[j].pc = "off" /\ watcher[j] = "off"
            /\ \A k \in Chunks(size[j]) : up[j][k].pc = "none"
            /\ mergeCalls[j] = 0
            /\ pc[j] = "upS" =>
                  /\ bufIndex[j] \in Slots
                  /\ done[bufIndex[j]] = 0
                  /\ buf[bufIndex[j]].len = size[j]
                  /\ buf[bufIndex[j]].data = <<j, 0>>
            /\ (pc[j] = "done" /\ Alone(j)) => \A s \in Slots : done[s] = 1

\* C13: no chunk is filled or dispatched before the placeholder goroutine
\* has finished with success, and none ever is when its attempts ran out
C13_PlaceholderBeforeChunks ==
    \A j \in Jobs :
        multi(j) =>
            /\ (inPos[j] > 0 \/ chunkIndex[j] > 0) => holder[j].pc = "end"
            /\ holder[j].pc = "failed" =>
                  /\ inPos[j] = 0
                  /\ \A k \in Chunks(size[j]) : up[j][k].pc = "none"

\* C14: a multi-chunk Update that has dispatched all its chunks, whose
\* caller's context ended before any chunk or placeholder failure was
\* recorded, and which made no merge call, returns the context's error
C14_CanceledResult ==
    \A j \in Jobs :
        ( /\ multi(j)
          /\ pc[j] = "done"
          /\ chunkIndex[j] = chunkCount(size[j])
          /\ firstErr[j][1] = "ctx"
          /\ mergeCalls[j] = 0 )
            => result[j] = firstErr[j]

\* C15: Update has recorded the size exactly when it returns success
C15_SizeIffSuccess ==
    \A j \in Jobs :
        /\ objSize[j] \in {-1, size[j]}
        /\ pc[j] = "done" => (result[j] = NoErr <=> objSize[j] = size[j])

Window(r) == [i \in 1 .. len(r) |-> r.data[(r.front + i - 1) % r.length]]

\* C18: a wait() called when 5 failures within 6 intervals have just been
\* recorded returns no sooner than the cooldown later
C18_CooldownAfterFailures == waited.armed => waited.dur >= Cooldown

C20_ReleasedOnReturn ==
    \A j \in Jobs :
        pc[j] = "done" => \A k \in Chunks(size[j]) : ~Holding(j, k)

\* the uploaders that hold slot s
HoldersOf(s) ==
    {jk \in UNION {{<<j, k>> : k \in Chunks(size[j])} : j \in Jobs} :
        Holding(jk[1], jk[2]) /\ up[jk[1]][jk[2]].slot = s}

\* C21: a slot is held by at most one uploader, and a step that refills a
\* slot or hands it to an uploader takes the slot's token from its channel,
\* no uploader and no single-chunk upload holding the slot at that time
C21_SlotExclusive ==
    /\ [](\A s \in Slots : Cardinality(HoldersOf(s)) <= 1)
    /\ [][\A s \in Slots :
             ( \/ buf'[s].len # buf[s].len
               \/ buf'[s].data # buf[s].data
               \/ HoldersOf(s)' \ HoldersOf(s) # {} )
                 => /\ done[s] = 1
                    /\ done'[s] = 0
                    /\ HoldersOf(s) = {}
                    /\ \A j \in Jobs : ~(pc[j] = "upS" /\ bufIndex[j] = s)]_vars

\* every slot is held and an uploader works on a slot that was used before
C21_Witness ==
    /\ claimed = ThreadCount
    /\ \E j \in Jobs : \E k \in Chunks(size[j]) :
          k >= ThreadCount /\ up[j][k].pc = "try"

\* C22: the placeholder goroutine makes at most 3 attempts, gives up only
\* after 3, and a multi-chunk Update whose placeholder gave up does not
\* return success
C22_PlaceholderFailureFailsJob ==
    \A j \in Jobs :
        /\ holder[j].tries <= EmptyFileAttempts
        /\ holder[j].pc = "failed" => holder[j].tries = EmptyFileAttempts
        /\ (holder[j].pc = "failed" /\ pc[j] = "done") => result[j] # NoErr

\* C23: while the orchestrator is in the merge loop, and ever after a merge
\* call, every chunk of the job has an uploader that has left its retry
\* loop and the placeholder goroutine has ended
C23_MergeAfterAllFinished ==
    \A j \in Jobs :
        (pc[j] = "merge" \/ mergeCalls[j] > 0) =>
            /\ wg[j] = 0
            /\ holder[j].pc \in {"end", "failed"}
            /\ \A k \in Chunks(size[j]) : up[j][k].pc \in {"rel", "fin"}

\* the merge loop is entered after an uploader needed a second attempt
C23_Witness ==
    \E j \in Jobs :
        /\ pc[j] = "merge"
        /\ \E k \in Chunks(size[j]) : up[j][k].pc = "rel" /\ up[j][k].tries >= 2

\* C24: once the job is cancelled (cancel was called by an uploader, the
\* placeholder goroutine or, for the caller, the watcher) the orchestrator
\* reads no further byte of the stream and dispatches no further chunk
C24_NoDispatchAfterCancel ==
    [][\A j \in Jobs :
          cancelCtx[j] => (chunkIndex'[j] = chunkIndex[j] /\ inPos'[j] = inPos[j])]_vars

\* C25: an uploader in its retry loop holds its slot, which keeps the bytes
\* and the valid length of its chunk, the cursor at 0 before the first
\* attempt and at the valid length after each; the checksum of an uploader
\* that succeeded, at whatever attempt, is that of the whole chunk
C25_RetrySameBytes ==
    \A j \in Jobs : \A k \in Chunks(size[j]) :
        /\ up[j][k].pc = "try" =>
              LET b == buf[up[j][k].slot]
              IN /\ done[up[j][k].slot] = 0
                 /\ b.data = <<j, k * ChunkSize>>
                 /\ b.len = chunkLen(size[j], k)
                 /\ b.i = IF up[j][k].tries = 0 THEN 0 ELSE b.len
        /\ up[j][k].res = "ok" => checksums[j][k] = SumOf(j, k)

\* an uploader has succeeded at its third attempt
C25_Witness ==
    \E j \in Jobs : \E k \in Chunks(size[j]) :
        /\ up[j][k].pc = "rel"
        /\ up[j][k].res = "ok"
        /\ up[j][k].tries = 3
        /\ checksums[j][k] = SumOf(j, k)

\* C26: a write on a stream with 0 to capacity bytes left, the read not
\* failing for another reason than the end of the stream, returns nil with
\* the valid length set to the bytes left and the cursor to 0; it returns
\* an error when the read fails for such a reason
C26_WriteAtEndOfStream ==
    [][lastWrite' # lastWrite =>
          LET w == lastWrite'
          IN /\ (~w.broken /\ w.left <= ChunkSize) =>
                   /\ w.err = "nil"
                   /\ buf'[w.slot].len = w.left
                   /\ buf'[w.slot].i = 0
             /\ w.broken => w.err # "nil"]_vars

\* C27: while nothing was evicted and fewer failures than the capacity were
\* put in the ring, the window's length is their number and the indices
\* are inside the ring
C27_WindowGrows ==
    LET k == failCalls - Len(pending)
    IN (k < Capacity /\ failures.front = 0) =>
          /\ len(failures) = k
          /\ failures.rear \in 0 .. (Capacity - 1)
          /\ failures.front \in 0 .. (Capacity - 1)

\* an Update waits for a slot, its caller's context live and the job not
\* cancelled, while every slot's channel is empty and no uploader and no
\* single-chunk upload holds a slot it would send back
Stuck(j) ==
    /\ pc[j] \in {"sel", "selS"}
    /\ ctx[j] = "live"
    /\ ~cancelCtx[j]
    /\ \A s \in Slots : done[s] = 0 /\ HoldersOf(s) = {}
    /\ \A j2 \in Jobs : pc[j2] # "upS"

\* C28: no Update is ever left waiting for a slot that nobody will release
C28_NoUploadStuck == \A j \in Jobs : ~Stuck(j)

\* C29: a multi-chunk Update that returns without having made a merge call,
\* the job's cancellation signal set, returns a non-nil error
C29_CancelledNeverSuccess ==
    \A j \in Jobs :
        (multi(j) /\ mergeCalls[j] = 0 /\ allCancelCtx[j]) =>
            /\ pc[j] = "ret" => returnErr[j] # NoErr
            /\ pc[j] = "done" => result[j] # NoErr

\* a multi-chunk Update has returned a chunk's error after the cancellation
C29_Witness ==
    \E j \in Jobs :
        /\ multi(j)
        /\ pc[j] = "done"
        /\ allCancelCtx[j]
        /\ mergeCalls[j] = 0
        /\ result[j][1] = "chunk"

\* C30: the single-chunk path never indexes the pool with the index of the
\* select's cancellation case
C30_PoolIndexInRange == \A j \in Jobs : pc[j] # "panic"

\* C31: the pool is made by the first NewFs and keeps its length, and the
\* select cases an Update builds are one receive case per slot of the pool
\* followed by the cancellation case: the pool is as long as the thread
\* count of the Fs the Update belongs to
C31_CasesMatchPool ==
    /\ (\E f \in FsIds : opt[f] # 0) => pool = opt[1]
    /\ cases.fs # 0 =>
          /\ ~cases.panic
          /\ pool = opt[cases.fs]
          /\ cases.list = [i \in 1 .. pool + 1 |->
                              IF i = pool + 1 THEN "cancel" ELSE "recv"]

\* the single-chunk uploads that hold slot s
SingleHoldersOf(s) == {j \in Jobs : pc[j] = "upS" /\ bufIndex[j] = s}

\* C32: a slot's channel never holds more than one token and a release never
\* blocks: whoever holds a slot and will send its token back finds the
\* channel empty, and a step that sends a token back is taken for the slot's
\* only acquisition, which it ends
C32_ReleaseNeverBlocks ==
    /\ [](\A s \in Slots :
            /\ done[s] \in {0, 1}
            /\ (HoldersOf(s) # {} \/ SingleHoldersOf(s) # {}) => done[s] = 0)
    /\ [][\A s \in Slots :
             done'[s] > done[s] =>
                /\ done[s] = 0
                /\ Cardinality(HoldersOf(s)) + Cardinality(SingleHoldersOf(s)) = 1
                /\ HoldersOf(s)' = {}
                /\ SingleHoldersOf(s)' = {}
                /\ claimed' = claimed - 1]_vars

\* a chunk's uploader and a single-chunk upload have both sent their slots
\* back, and every slot is free again
C32_Witness ==
    /\ \A s \in Slots : done[s] = 1
    /\ claimed = 0
    /\ \E j \in Jobs : \E k \in Chunks(size[j]) : up[j][k].pc = "fin"
    /\ \E j \in Jobs : ~multi(j) /\ size[j] > 0 /\ pc[j] = "done" /\ result[j] = NoErr

====
